---- MODULE Spec2Model ----
(***************************************************************************)
(* Model of src/enum.py: the recursive registry scan scan_registry_key and *)
(* the root loop of main.                                                  *)
(*                                                                         *)
(* A Python str is a sequence of one-character strings.  The recursion of  *)
(* scan_registry_key is an explicit stack of frames; every call of the     *)
(* winreg binding (OpenKey, EnumValue, EnumKey, CloseKey) is one step.     *)
(* The registry is the variable store; the failures the registry answers   *)
(* with are the variable faults, fixed when the program starts.            *)
(***************************************************************************)
EXTENDS Integers, Sequences, FiniteSets, TLC

\* ------------------------------------------------------------ bounds
\* longest search string given on the command line
MaxTermLen == 1
\* longest name of a key or value, and longest search string, where the search
\* for one string in another is at stake
MaxCandLen == 2
\* most calls of the registry that fail for a reason other than "no more items"
MaxFaults == 1

\* ------------------------------------------------------------ Python str
\* the path separator '\\' of lines 46 and 89
SEP == "\\"

UpperCase == <<"A", "B", "C", "D", "E", "F", "G", "H", "I", "J", "K", "L", "M",
               "N", "O", "P", "Q", "R", "S", "T", "U", "V", "W", "X", "Y", "Z">>

LowerCase == <<"a", "b", "c", "d", "e", "f", "g", "h", "i", "j", "k", "l", "m",
               "n", "o", "p", "q", "r", "s", "t", "u", "v", "w", "x", "y", "z">>

\* str.lower() of one character
LowerChar(c) ==
    IF \E i \in 1..Len(UpperCase) : UpperCase[i] = c
    THEN LowerCase[CHOOSE i \in 1..Len(UpperCase) : UpperCase[i] = c]
    ELSE c

\* str.lower()
Lower(s) == [i \in 1..Len(s) |-> LowerChar(s[i])]

\* s.startswith(t)
StartsWith(s, t) == Len(t) <= Len(s) /\ SubSeq(s, 1, Len(t)) = t

RECURSIVE In(_, _)
\* the operator "t in s" of str: a left-to-right search for t in s
In(t, s) ==
    IF Len(t) > Len(s) THEN FALSE
    ELSE IF StartsWith(s, t) THEN TRUE
    ELSE In(t, Tail(s))

RECURSIVE Split(_, _)
\* s.split(sep) for a one-character sep: the list of the segments of s
Split(s, sep) ==
    IF \A i \in 1..Len(s) : s[i] # sep THEN <<s>>
    ELSE LET i == CHOOSE k \in 1..Len(s) :
                      s[k] = sep /\ \A j \in 1..(k - 1) : s[j] # sep
         IN  <<SubSeq(s, 1, i - 1)>> \o Split(SubSeq(s, i + 1, Len(s)), sep)

RECURSIVE Digits(_)
\* str(n) of an int n >= 0
Digits(n) ==
    LET d == <<"0", "1", "2", "3", "4", "5", "6", "7", "8", "9">>
    IN  IF n < 10 THEN <<d[n + 1]>> ELSE Digits(n \div 10) \o <<d[(n % 10) + 1]>>

RECURSIVE JoinRepr(_)
\* the items of a list of str as str(list) writes them: 'a', 'b'
JoinRepr(l) ==
    IF l = <<>> THEN <<>>
    ELSE <<"'">> \o Head(l) \o <<"'">>
         \o (IF Len(l) > 1 THEN <<",", " ">> ELSE <<>>) \o JoinRepr(Tail(l))

\* str(value_data), line 67, for the data winreg returns: str (REG_SZ), int
\* (REG_DWORD), bytes (REG_BINARY, printable bytes), list of str (REG_MULTI_SZ)
Str(data) ==
    CASE data.t = "str"   -> data.v
      [] data.t = "int"   -> Digits(data.v)
      [] data.t = "bytes" -> <<"b", "'">> \o data.v \o <<"'">>
      [] data.t = "list"  -> <<"[">> \o JoinRepr(data.v) \o <<"]">>

\* ------------------------------------------------------------ exceptions
\* isinstance(e, cls) for the exception classes the handlers name
IsInstance(e, cls) ==
    CASE cls = "Exception"         -> e \in {"Exception", "OSError", "PermissionError", "FileNotFoundError"}
      [] cls = "OSError"           -> e \in {"OSError", "PermissionError", "FileNotFoundError"}
      [] cls = "PermissionError"   -> e = "PermissionError"
      [] cls = "FileNotFoundError" -> e = "FileNotFoundError"

\* ------------------------------------------------------------ the registry
\* ROOT_KEYS, lines 16-22: the names of the root keys, in the order of the dict
ROOT_KEYS ==
    << <<"H","K","E","Y","_","C","L","A","S","S","E","S","_","R","O","O","T">>,
       <<"H","K","E","Y","_","C","U","R","R","E","N","T","_","U","S","E","R">>,
       <<"H","K","E","Y","_","L","O","C","A","L","_","M","A","C","H","I","N","E">>,
       <<"H","K","E","Y","_","U","S","E","R","S">>,
       <<"H","K","E","Y","_","C","U","R","R","E","N","T","_","C","O","N","F","I","G">> >>

\* A key of the registry is <<r, i1, .., ik>>: the root ROOT_KEYS[r], then the
\* indices of EnumKey down to the key.  A registry gives every key the names of
\* its subkeys and its values, both in index order.
Value(name, data) == [name |-> name, data |-> data]

NoData == [t |-> "none"]

\* the registry the scans run on: HKEY_CLASSES_ROOT holds a, a\A and b1,
\* HKEY_CURRENT_USER holds values only
Registry ==
    [kids |-> (<<1>>       :> << <<"a">>, <<"b", "1">> >>)
           @@ (<<1, 0>>    :> << <<"A">> >>)
           @@ (<<1, 0, 0>> :> << >>)
           @@ (<<1, 1>>    :> << >>)
           @@ (<<2>>       :> << >>),
     vals |-> (<<1>>       :> << Value(<< >>, [t |-> "str", v |-> <<"A", "a">>]) >>)
           @@ (<<1, 0>>    :> << Value(<<"a">>, [t |-> "int", v |-> 10]),
                                 Value(<<"A", "b">>, [t |-> "bytes", v |-> <<"a">>]) >>)
           @@ (<<1, 0, 0>> :> << Value(<<"B">>, NoData) >>)
           @@ (<<1, 1>>    :> << Value(<<"b">>, [t |-> "list", v |-> << <<"A">>, <<"a">> >>]) >>)
           @@ (<<2>>       :> << Value(<<"A">>, [t |-> "str", v |-> <<"a">>]) >>)]

Keys(s) == DOMAIN s.kids

\* the i-th subkey (from 0) of key n
Child(n, i) == Append(n, i)

RECURSIVE Walk(_, _, _)
\* the key the segments segs lead to from key n, or << >> when there is none;
\* the registry compares key names without regard to case
Walk(s, n, segs) ==
    IF segs = << >> THEN n
    ELSE LET hit == {i \in 1..Len(s.kids[n]) : Lower(s.kids[n][i]) = Lower(Head(segs))}
         IN  IF hit = {} THEN << >>
             ELSE Walk(s, Child(n, (CHOOSE i \in hit : TRUE) - 1), Tail(segs))

\* the key winreg.OpenKey(root_key, key_path) names: the root itself for ""
Resolve(s, root_key, key_path) ==
    Walk(s, <<root_key>>, IF key_path = << >> THEN << >> ELSE Split(key_path, SEP))

\* ------------------------------------------------------------ failures
\* A fault makes one call of the registry fail: OpenKey of a key, EnumValue or
\* EnumKey of a key at an index, or str() of the data of a value.
Fault(op, node, index, exc) == [op |-> op, node |-> node, index |-> index, exc |-> exc]

FaultPoints(s) ==
    {Fault("open", n, 0, e) : n \in Keys(s), e \in {"PermissionError", "FileNotFoundError", "Exception"}}
    \cup UNION {{Fault("value", n, i - 1, e) : i \in 1..Len(s.vals[n]), e \in {"OSError", "Exception"}} : n \in Keys(s)}
    \cup UNION {{Fault("key", n, i - 1, e) : i \in 1..Len(s.kids[n]), e \in {"OSError", "Exception"}} : n \in Keys(s)}
    \cup UNION {{Fault("render", n, i - 1, "Exception") :
                    i \in {j \in 1..Len(s.vals[n]) : s.vals[n][j].data.t # "none"}} : n \in Keys(s)}

\* at most one outcome for a call
Consistent(F) ==
    \A f \in F, g \in F : (f.op = g.op /\ f.node = g.node /\ f.index = g.index) => f = g

RECURSIVE UpTo(_, _)
\* the subsets of S of at most k elements
UpTo(S, k) ==
    IF k = 0 THEN {{}}
    ELSE LET T == UpTo(S, k - 1) IN T \cup {t \cup {x} : t \in T, x \in S}

FaultSets(s, roots) ==
    {F \in UpTo({f \in FaultPoints(s) : \E i \in 1..Len(roots) : f.node[1] = roots[i]}, MaxFaults) :
        Consistent(F)}

\* what the call (op, node, index) raises under the faults F, or "none"
Raises(F, op, node, index) ==
    IF \E f \in F : f.op = op /\ f.node = node /\ f.index = index
    THEN (CHOOSE f \in F : f.op = op /\ f.node = node /\ f.index = index).exc
    ELSE "none"

\* ------------------------------------------------------------ the program
VARIABLES
    store,          \* the registry
    faults,         \* the calls of the registry that fail
    search_string,  \* args.search_string
    case_sensitive, \* args.case_sensitive
    roots_to_scan,  \* line 137: the root keys the loop of main goes through
    root_i,         \* how many of them the loop has taken
    results,        \* line 141: what the last scan of a root returned
    all_results,    \* line 134
    mainpc,         \* where main is: "loop", "scanning", "done" or "raised"
    stack,          \* the calls of scan_registry_key in progress, innermost last
    handles,        \* every handle OpenKey has given out: its key and its closes
    calls,          \* every call of the registry so far
    run,            \* which run of the program this is
    prev_results    \* all_results of the run before

vars == <<store, faults, search_string, case_sensitive, roots_to_scan, root_i, results,
          all_results, mainpc, stack, handles, calls, run, prev_results>>

args == <<store, faults, search_string, case_sensitive, roots_to_scan>>

\* SearchStr without the lowering of the search string
SearchStrAsGiven(s, cs) == s

\* line 39
SearchStr(s, cs) == IF cs THEN s ELSE Lower(s)

\* lines 47, 60, 68: the string a name or a rendering is searched in
CheckStr(s, cs) == IF cs THEN s ELSE Lower(s)

\* Matches taking an empty search string for no search at all
MatchesNonEmpty(search_str, s, cs) == search_str # << >> /\ In(search_str, CheckStr(s, cs))

\* lines 48, 61, 69
Matches(search_str, s, cs) == In(search_str, CheckStr(s, cs))

\* line 46
KeyName(key_path) ==
    IF In(<<SEP>>, key_path)
    THEN LET segs == Split(key_path, SEP) IN segs[Len(segs)]
    ELSE key_path

\* SubkeyPath without the path of the parent
SubkeyPathBare(key_path, subkey_name) == subkey_name

\* SubkeyPath without the test of line 88: the separator also after the empty path
SubkeyPathJoined(key_path, subkey_name) == key_path \o <<SEP>> \o subkey_name

\* lines 88-91
SubkeyPath(key_path, subkey_name) ==
    IF key_path # << >> THEN key_path \o <<SEP>> \o subkey_name ELSE subkey_name

\* a result tuple (full_path, match_type, match_value)
Result(path, type, value) == <<path, type, value>>

\* line 70: f"{value_name} = {value_str}"
NameEqualsData(value_name, value_str) == value_name \o <<" ", "=", " ">> \o value_str

TypeText(type) ==
    CASE type = "KEY_NAME"   -> <<"K","E","Y","_","N","A","M","E">>
      [] type = "VALUE_NAME" -> <<"V","A","L","U","E","_","N","A","M","E">>
      [] type = "VALUE_DATA" -> <<"V","A","L","U","E","_","D","A","T","A">>

\* line 144: f"[{root_name}\\{full_path}] {match_type}: {match_value}"
ResultLine(root_name, r) ==
    <<"[">> \o root_name \o <<SEP>> \o r[1] \o <<"]", " ">> \o TypeText(r[2])
            \o <<":", " ">> \o r[3]

\* ResultLines writing the list from its end
ResultLinesReversed(root_name, rs) ==
    [i \in 1..Len(rs) |-> ResultLine(root_name, rs[Len(rs) + 1 - i])]

\* lines 143-145 over the whole list
ResultLines(root_name, rs) == [i \in 1..Len(rs) |-> ResultLine(root_name, rs[i])]

\* Frame with the count of the values starting at 1
FrameFromOne(root_key, key_path) ==
    [root_key     |-> root_key,
     key_path     |-> key_path,
     results      |-> << >>,
     search_str   |-> SearchStr(search_string, case_sensitive),
     key          |-> 0,
     value_index  |-> 1,
     subkey_index |-> 0,
     pc           |-> "open"]

\* lines 25-39: the frame of a call of scan_registry_key, before its try
Frame(root_key, key_path) ==
    [root_key     |-> root_key,
     key_path     |-> key_path,
     results      |-> << >>,
     search_str   |-> SearchStr(search_string, case_sensitive),
     key          |-> 0,
     value_index  |-> 0,
     subkey_index |-> 0,
     pc           |-> "open"]

Top == stack[Len(stack)]

Below == SubSeq(stack, 1, Len(stack) - 1)

\* the handlers of the try of lines 52-77
Caught74(e) == IsInstance(e, "OSError")

\* the handler of line 76 catching OSError only
Caught76OSError(e) == IsInstance(e, "OSError")

Caught76(e) == IsInstance(e, "Exception")

\* the handlers of the try of lines 80-100
Caught97(e) == IsInstance(e, "OSError")

\* the handler of line 99 catching OSError only
Caught99OSError(e) == IsInstance(e, "OSError")

Caught99(e) == IsInstance(e, "Exception")

\* the handlers of the try of lines 41-112
Caught104(e) == IsInstance(e, "PermissionError")

Caught107(e) == IsInstance(e, "FileNotFoundError")

\* the try of lines 41-112 without its last handler
Caught110Missing(e) == FALSE

\* the last handler catching OSError only
Caught110OSError(e) == IsInstance(e, "OSError")

Caught110(e) == IsInstance(e, "Exception")

\* Break75 with one try around both loops: a failure among the values skips the subkeys
Break75Closing(f) == [f EXCEPT !.pc = "close"]

\* Break75 with continue where line 75 has break: the loop asks for the same index again
Break75Again(f) == f

\* line 75 (break) and line 77 (pass): the call goes on with line 80
Break75(f) == [f EXCEPT !.pc = "subkeys"]

\* Break98 with a handler that gives up what the call has found so far
Break98Dropping(f) == [f EXCEPT !.pc = "close", !.results = << >>]

\* line 98 (break) and line 100 (pass): the call goes on with line 102
Break98(f) == [f EXCEPT !.pc = "close"]

\* What a step leaves of the stack, and what main sees of it: the scan is still
\* "running", the call of line 141 "returned" value, or an exception was "raised"
\* out of it.
Running(stk) == [stack |-> stk, status |-> "running", value |-> << >>]

\* Return with the caller putting the results of the subkey before its own
ReturnInFront(rest, res) ==
    IF rest = << >> THEN [stack |-> << >>, status |-> "returned", value |-> res]
    ELSE Running([rest EXCEPT ![Len(rest)].results = res \o @])

\* line 114 and, in the caller, line 95
Return(rest, res) ==
    IF rest = << >> THEN [stack |-> << >>, status |-> "returned", value |-> res]
    ELSE Running([rest EXCEPT ![Len(rest)].results = @ \o res])

RECURSIVE Unwind(_, _)
\* the exception e reaches the handlers of lines 104-112 in the innermost call of
\* stk; a call that does not catch it hands it to line 94 of its caller
Unwind(stk, e) ==
    LET rest == SubSeq(stk, 1, Len(stk) - 1) IN
    IF Caught104(e) \/ Caught107(e) \/ Caught110(e)
    THEN Return(rest, stk[Len(stk)].results)
    ELSE IF rest = << >> THEN [stack |-> << >>, status |-> "raised", value |-> << >>]
    ELSE IF Caught97(e) \/ Caught99(e)
    THEN Running([rest EXCEPT ![Len(rest)] = Break98(@)])
    ELSE Unwind(rest, e)

\* the step ends with the outcome out: lines 141-146 when the scan of a root returned
Deliver(out) ==
    \E o \in {out} :
        /\ stack' = o.stack
        /\ CASE o.status = "running"  ->
                  UNCHANGED <<results, all_results, mainpc>>
             [] o.status = "returned" ->
                  /\ results' = o.value
                  /\ all_results' = all_results
                        \o ResultLines(ROOT_KEYS[roots_to_scan[root_i]], o.value)
                  /\ mainpc' = "loop"
             [] o.status = "raised"   ->
                  /\ mainpc' = "raised"
                  /\ UNCHANGED <<results, all_results>>

\* one call of the registry, as the log keeps it
Call(op, key, path, index, out) ==
    [op |-> op, key |-> key, path |-> path, index |-> index, out |-> out]

\* winreg.KEY_ALL_ACCESS: every right on a key
KEY_ALL_ACCESS ==
    {"KEY_QUERY_VALUE", "KEY_SET_VALUE", "KEY_CREATE_SUB_KEY", "KEY_ENUMERATE_SUB_KEYS",
     "KEY_NOTIFY", "KEY_CREATE_LINK", "DELETE", "READ_CONTROL", "WRITE_DAC", "WRITE_OWNER"}

\* line 43: winreg.KEY_READ, the rights a handle is asked for
KEY_READ == {"READ_CONTROL", "KEY_QUERY_VALUE", "KEY_ENUMERATE_SUB_KEYS", "KEY_NOTIFY"}

\* the handler of line 71 catching OSError only
Caught71OSError(e) == IsInstance(e, "OSError")

\* line 71: the bare except
Caught71(e) == TRUE

\* SelfMatch reporting the handle key where the name key_name is meant
SelfMatchHandle(f, h) ==
    LET key_name == KeyName(f.key_path) IN
    [f EXCEPT !.key = h,
              !.results = IF Matches(f.search_str, key_name, case_sensitive)
                          THEN Append(@, Result(f.key_path, "KEY_NAME", Digits(h)))
                          ELSE @,
              !.pc = "values"]

\* lines 45-49, after OpenKey gave the handle h
SelfMatch(f, h) ==
    LET key_name == KeyName(f.key_path) IN
    [f EXCEPT !.key = h,
              !.results = IF Matches(f.search_str, key_name, case_sensitive)
                          THEN Append(@, Result(f.key_path, "KEY_NAME", key_name))
                          ELSE @,
              !.pc = "values"]

\* lines 59-62
NameCheck(f, value_name) ==
    IF Matches(f.search_str, value_name, case_sensitive)
    THEN <<Result(f.key_path, "VALUE_NAME", value_name)>>
    ELSE << >>

\* DataCheck searching the name of the value a second time instead of its data
DataCheckOfName(f, value_name, value_data) ==
    LET value_str == Str(value_data) IN
    IF Matches(f.search_str, value_name, case_sensitive)
    THEN <<Result(f.key_path, "VALUE_DATA", NameEqualsData(value_name, value_str))>>
    ELSE << >>

\* lines 67-70
DataCheck(f, value_name, value_data) ==
    LET value_str == Str(value_data) IN
    IF Matches(f.search_str, value_str, case_sensitive)
    THEN <<Result(f.key_path, "VALUE_DATA", NameEqualsData(value_name, value_str))>>
    ELSE << >>

\* ------------------------------------------------------------ the steps
\* lines 139-141: main takes the next root and calls scan_registry_key on ""
MainCall ==
    /\ mainpc = "loop"
    /\ root_i < Len(roots_to_scan)
    /\ root_i' = root_i + 1
    /\ stack' = <<Frame(roots_to_scan[root_i + 1], << >>)>>
    /\ mainpc' = "scanning"
    /\ UNCHANGED <<args, run, prev_results, results, all_results, handles, calls>>

\* lines 148-162: the loop is over
MainFinish ==
    /\ mainpc = "loop"
    /\ root_i = Len(roots_to_scan)
    /\ mainpc' = "done"
    /\ UNCHANGED <<args, run, prev_results, root_i, results, all_results, stack, handles, calls>>

\* lines 41-49, and lines 104-114 when OpenKey fails
OpenKey ==
    /\ mainpc = "scanning"
    /\ Top.pc = "open"
    /\ \E f \in {Top} :
       \E node \in {Resolve(store, f.root_key, f.key_path)} :
       \E exc \in {IF node = << >> THEN "FileNotFoundError"
                   ELSE Raises(faults, "open", node, 0)} :
           /\ calls' = Append(calls, Call("OpenKey", f.root_key, f.key_path, 0, exc))
           /\ IF exc = "none"
              THEN /\ handles' = Append(handles, [node |-> node, closes |-> 0, access |-> KEY_READ])
                   /\ Deliver(Running([stack EXCEPT ![Len(stack)] = SelfMatch(f, Len(handles) + 1)]))
              ELSE /\ Deliver(Unwind(stack, exc))
                   /\ UNCHANGED handles
    /\ UNCHANGED <<args, run, prev_results, root_i>>

\* lines 54-77: one turn of the loop over the values
EnumValue ==
    /\ mainpc = "scanning"
    /\ Top.pc = "values"
    /\ \E f \in {Top} :
       \E node \in {handles[f.key].node} :
       \E i \in {f.value_index} :
       \E flt \in {Raises(faults, "value", node, i)} :
       \E exc \in {IF flt # "none" THEN flt
                   ELSE IF i >= Len(store.vals[node]) THEN "OSError"
                   ELSE "none"} :
       LET v    == store.vals[node][i + 1]
           rexc == IF v.data.t = "none" THEN "none" ELSE Raises(faults, "render", node, i)
           named == [f EXCEPT !.value_index = i + 1,
                              !.results = @ \o NameCheck(f, v.name)]
       IN  /\ calls' = Append(calls, Call("EnumValue", f.key, << >>, i, exc))
           /\ IF exc = "none"
              THEN IF v.data.t = "none" \/ (rexc # "none" /\ Caught71(rexc))
                   THEN Deliver(Running([stack EXCEPT ![Len(stack)] = named]))
                   ELSE IF rexc = "none"
                   THEN Deliver(Running([stack EXCEPT ![Len(stack)] =
                            [named EXCEPT !.results = @ \o DataCheck(f, v.name, v.data)]]))
                   ELSE IF Caught74(rexc) \/ Caught76(rexc)
                   THEN Deliver(Running([stack EXCEPT ![Len(stack)] = Break75(named)]))
                   ELSE Deliver(Unwind([stack EXCEPT ![Len(stack)] = named], rexc))
              ELSE IF Caught74(exc) \/ Caught76(exc)
                   THEN Deliver(Running([stack EXCEPT ![Len(stack)] = Break75(f)]))
                   ELSE Deliver(Unwind(stack, exc))
    /\ UNCHANGED <<args, run, prev_results, root_i, handles>>

\* lines 82-100: one turn of the loop over the subkeys, up to the call of line 94
EnumKey ==
    /\ mainpc = "scanning"
    /\ Top.pc = "subkeys"
    /\ \E f \in {Top} :
       \E node \in {handles[f.key].node} :
       \E i \in {f.subkey_index} :
       \E flt \in {Raises(faults, "key", node, i)} :
       \E exc \in {IF flt # "none" THEN flt
                   ELSE IF i >= Len(store.kids[node]) THEN "OSError"
                   ELSE "none"} :
       LET subkey_name == store.kids[node][i + 1]
       IN  /\ calls' = Append(calls, Call("EnumKey", f.key, << >>, i, exc))
           /\ IF exc = "none"
              THEN Deliver(Running(
                      Append([stack EXCEPT ![Len(stack)].subkey_index = i + 1],
                             Frame(f.root_key, SubkeyPath(f.key_path, subkey_name)))))
              ELSE IF Caught97(exc) \/ Caught99(exc)
                   THEN Deliver(Running([stack EXCEPT ![Len(stack)] = Break98(f)]))
                   ELSE Deliver(Unwind(stack, exc))
    /\ UNCHANGED <<args, run, prev_results, root_i, handles>>

\* lines 102 and 114: the key is closed and the call returns its results
CloseKey ==
    /\ mainpc = "scanning"
    /\ Top.pc = "close"
    /\ \E f \in {Top} :
           /\ calls' = Append(calls, Call("CloseKey", f.key, << >>, 0, "none"))
           /\ handles' = [handles EXCEPT ![f.key].closes = @ + 1]
           /\ Deliver(Return(Below, f.results))
    /\ UNCHANGED <<args, run, prev_results, root_i>>

\* ------------------------------------------------------------ the runs
\* the search strings of the command line
RECURSIVE Strings(_, _)
Strings(alphabet, n) ==
    IF n = 0 THEN {<< >>}
    ELSE LET S == Strings(alphabet, n - 1)
         IN  S \cup {Append(s, c) : s \in S, c \in alphabet}

Terms == Strings({"a", "A"}, MaxTermLen)

\* line 137: args.root names one root, or every root is scanned in the order of
\* ROOT_KEYS; the roots are those the registry holds
Roots(s) == {n[1] : n \in Keys(s)}

Ascending(S) ==
    CHOOSE q \in [1..Cardinality(S) -> S] :
        \A i, j \in 1..Cardinality(S) : i < j => q[i] < q[j]

Selections(s) == {Ascending(Roots(s))} \cup {<<r>> : r \in Roots(s)}

Start ==
    /\ root_i = 0
    /\ results = << >>
    /\ all_results = << >>
    /\ mainpc = "loop"
    /\ stack = << >>
    /\ handles = << >>
    /\ calls = << >>
    /\ run = 1
    /\ prev_results = << >>

Init ==
    /\ store = Registry
    /\ search_string \in Terms
    /\ case_sensitive \in BOOLEAN
    /\ roots_to_scan \in Selections(store)
    /\ faults \in FaultSets(store, roots_to_scan)
    /\ Start

Next ==
    \/ MainCall
    \/ OpenKey
    \/ EnumValue
    \/ EnumKey
    \/ CloseKey
    \/ MainFinish

Spec == Init /\ [][Next]_vars

\* The program is one thread that runs to its end: whenever it has a next step, it
\* takes it.
\* The runs of the program over every root, under every set of failures. The term
\* is fixed: no loop condition and no handler of scan_registry_key reads it.
InitFair ==
    /\ store = Registry
    /\ search_string = <<"a">>
    /\ case_sensitive = FALSE
    /\ roots_to_scan = Ascending(Roots(store))
    /\ faults \in FaultSets(store, roots_to_scan)
    /\ Start

SpecFair == InitFair /\ [][Next]_vars /\ WF_vars(Next)

\* A registry for the search of the term in one candidate string: the root has a
\* value of that name with that string as data and, unless it is empty, a subkey
\* of that name.
MatchRegistry(cand) ==
    [kids |-> (<<1>> :> (IF cand = << >> THEN << >> ELSE <<cand>>))
           @@ (IF cand = << >> THEN << >> ELSE (<<1, 0>> :> << >>)),
     vals |-> (<<1>> :> << Value(cand, [t |-> "str", v |-> cand]) >>)
           @@ (IF cand = << >> THEN << >> ELSE (<<1, 0>> :> << >>))]

InitMatch ==
    /\ store \in {MatchRegistry(cand) : cand \in Strings({"a", "A", "b"}, MaxCandLen)}
    /\ search_string \in Strings({"a", "A", "b"}, MaxCandLen)
    /\ case_sensitive \in BOOLEAN
    /\ roots_to_scan = <<1>>
    /\ faults = {}
    /\ Start

SpecMatch == InitMatch /\ [][Next]_vars

\* lines 165-166, a second time: the program is run again on the same registry
\* with the same arguments; the registry hands out handles it has not used yet
Rerun ==
    /\ mainpc = "done"
    /\ run = 1
    /\ run' = 2
    /\ prev_results' = all_results
    /\ root_i' = 0
    /\ results' = << >>
    /\ all_results' = << >>
    /\ mainpc' = "loop"
    /\ UNCHANGED <<args, stack, handles, calls>>

NextTwice ==
    \/ MainCall
    \/ OpenKey
    \/ EnumValue
    \/ EnumKey
    \/ CloseKey
    \/ MainFinish
    \/ Rerun

SpecTwice == Init /\ [][NextTwice]_vars

\* ------------------------------------------------------------ the registry, as the claims read it
Parent(n) == SubSeq(n, 1, Len(n) - 1)

\* the name of key n: the one its parent lists it under, "" for a root
NameOf(s, n) == IF Len(n) = 1 THEN << >> ELSE s.kids[Parent(n)][n[Len(n)] + 1]

RECURSIVE PathOf(_, _)
\* the names from the root down to key n, joined by the separator
PathOf(s, n) ==
    IF Len(n) = 1 THEN << >>
    ELSE IF Len(n) = 2 THEN NameOf(s, n)
    ELSE PathOf(s, Parent(n)) \o <<SEP>> \o NameOf(s, n)

\* the keys under the root r
Tree(s, r) == {n \in Keys(s) : n[1] = r}

\* t is a contiguous part of s
Substring(t, s) ==
    \E i \in 1..(Len(s) + 1) : \E j \in (i - 1)..Len(s) : SubSeq(s, i, j) = t

\* the term is contained in the candidate, letter case ignored unless cs
Contained(t, s, cs) ==
    IF cs THEN Substring(t, s) ELSE Substring(Lower(t), Lower(s))

Range(q) == {q[i] : i \in 1..Len(q)}

Count(q, x) == Cardinality({i \in 1..Len(q) : q[i] = x})

\* What a scan can report: the name of a key, the name of a value, the data of
\* a value that has data.
KeyItem(n) == <<"KEY_NAME", n, 0>>

NameItem(n, i) == <<"VALUE_NAME", n, i>>

DataItem(n, i) == <<"VALUE_DATA", n, i>>

ItemsOf(s, r) ==
    {KeyItem(n) : n \in Tree(s, r)}
    \cup UNION {{NameItem(n, i) : i \in 1..Len(s.vals[n])} : n \in Tree(s, r)}
    \cup UNION {{DataItem(n, i) : i \in {j \in 1..Len(s.vals[n]) : s.vals[n][j].data.t # "none"}} :
                    n \in Tree(s, r)}

\* the string the term is looked for in
ItemText(s, it) ==
    CASE it[1] = "KEY_NAME"   -> NameOf(s, it[2])
      [] it[1] = "VALUE_NAME" -> s.vals[it[2]][it[3]].name
      [] it[1] = "VALUE_DATA" -> Str(s.vals[it[2]][it[3]].data)

\* the record that reports it
ItemRecord(s, it) ==
    <<PathOf(s, it[2]), it[1],
      IF it[1] = "VALUE_DATA"
      THEN s.vals[it[2]][it[3]].name \o <<" ", "=", " ">> \o ItemText(s, it)
      ELSE ItemText(s, it)>>

ItemHit(s, it) == Contained(search_string, ItemText(s, it), case_sensitive)

RECURSIVE PreOrder(_, _), ValueItems(_, _, _), KidItems(_, _, _)
\* everything below key n in depth-first pre-order: the key, its values by index
\* with the name of each before its data, then its subkeys by index
PreOrder(s, n) == <<KeyItem(n)>> \o ValueItems(s, n, 1) \o KidItems(s, n, 1)

ValueItems(s, n, i) ==
    IF i > Len(s.vals[n]) THEN << >>
    ELSE <<NameItem(n, i)>>
         \o (IF s.vals[n][i].data.t # "none" THEN <<DataItem(n, i)>> ELSE << >>)
         \o ValueItems(s, n, i + 1)

KidItems(s, n, i) ==
    IF i > Len(s.kids[n]) THEN << >>
    ELSE PreOrder(s, Child(n, i - 1)) \o KidItems(s, n, i + 1)

RECURSIVE IsSubseq(_, _)
\* a is b with some of its elements left out
IsSubseq(a, b) ==
    IF a = << >> THEN TRUE
    ELSE IF b = << >> THEN FALSE
    ELSE IF Head(a) = Head(b) THEN IsSubseq(Tail(a), Tail(b))
    ELSE IsSubseq(a, Tail(b))

RECURSIVE Expected(_, _, _), ExpectedValues(_, _, _, _), ExpectedKids(_, _, _, _)
\* What the scan of key n is to return under the faults F: nothing when the key
\* does not open, else its own record, the records of its values up to the first
\* index that fails, and what the scans of its subkeys return, up to the first
\* index that fails.
Expected(s, F, n) ==
    IF Raises(F, "open", n, 0) # "none" THEN << >>
    ELSE (IF ItemHit(s, KeyItem(n)) THEN <<ItemRecord(s, KeyItem(n))>> ELSE << >>)
         \o ExpectedValues(s, F, n, 1) \o ExpectedKids(s, F, n, 1)

ExpectedValues(s, F, n, i) ==
    IF i > Len(s.vals[n]) \/ Raises(F, "value", n, i - 1) # "none" THEN << >>
    ELSE (IF ItemHit(s, NameItem(n, i)) THEN <<ItemRecord(s, NameItem(n, i))>> ELSE << >>)
         \o (IF /\ s.vals[n][i].data.t # "none"
                /\ Raises(F, "render", n, i - 1) = "none"
                /\ ItemHit(s, DataItem(n, i))
             THEN <<ItemRecord(s, DataItem(n, i))>> ELSE << >>)
         \o ExpectedValues(s, F, n, i + 1)

ExpectedKids(s, F, n, i) ==
    IF i > Len(s.kids[n]) \/ Raises(F, "key", n, i - 1) # "none" THEN << >>
    ELSE Expected(s, F, Child(n, i - 1)) \o ExpectedKids(s, F, n, i + 1)

\* the path is that of the key of path p or of a key below it
Under(p, path) == p = << >> \/ path = p \/ StartsWith(path, p \o <<SEP>>)

RECURSIVE Outside(_, _)
\* the records of q of keys that are not under the path p
Outside(p, q) ==
    IF q = << >> THEN << >>
    ELSE (IF Under(p, Head(q)[1]) THEN << >> ELSE <<Head(q)>>) \o Outside(p, Tail(q))

RECURSIVE Inside(_, _)
\* the records of q of keys under the path p
Inside(p, q) ==
    IF q = << >> THEN << >>
    ELSE (IF Under(p, Head(q)[1]) THEN <<Head(q)>> ELSE << >>) \o Inside(p, Tail(q))

\* main holds the list the scan of the root ScannedRoot returned
Returned == mainpc \in {"loop", "done"} /\ root_i > 0

ScannedRoot == roots_to_scan[root_i]

\* ------------------------------------------------------------ the claims
\* C1: when no open, enumeration or rendering fails, the list a scan returns holds
\* exactly one record for every key name, value name and rendered value data that
\* contains the term, with the path of its key, and no other record.
ScanSoundComplete ==
    (Returned /\ faults = {}) =>
        LET hits == {it \in ItemsOf(store, ScannedRoot) : ItemHit(store, it)}
        IN  \A x \in Range(results) \cup {ItemRecord(store, it) : it \in hits} :
                Count(results, x) = Cardinality({it \in hits : ItemRecord(store, it) = x})

\* a scan without failures that reports some of the keys and values and not others
ScanSoundCompleteWitness ==
    /\ Returned /\ faults = {} /\ ScannedRoot = 1
    /\ search_string = <<"a">> /\ case_sensitive
    /\ Len(results) >= 3

\* C2: the records of a scan are in depth-first pre-order: a key's own record,
\* then its values by index with the name record before the data record, then the
\* records of its subkeys by index; no record of a key below precedes one of a key above.
ResultsInPreOrder ==
    Returned =>
        LET order == PreOrder(store, <<ScannedRoot>>)
        IN  IsSubseq(results, [i \in 1..Len(order) |-> ItemRecord(store, order[i])])

\* a scan that reports a root, its values, and keys two levels down
ResultsInPreOrderWitness ==
    /\ Returned
    /\ \E i, j, k \in 1..Len(results) :
          /\ i < j /\ j < k
          /\ results[i][1] = << >> /\ results[i][2] = "KEY_NAME"
          /\ results[j][2] = "VALUE_NAME" /\ results[j + 1][2] = "VALUE_DATA"
          /\ In(<<SEP>>, results[k][1])
          /\ \E m \in (k + 1)..Len(results) : ~In(<<SEP>>, results[m][1])

\* C3: a key whose open fails contributes no record, not even for its own name,
\* nothing below it is opened, and the scan returns what it would return without
\* the failure less the records of the key and of the keys below it.
OpenFailureIsolated ==
    Returned =>
        \A f \in faults :
            (f.op = "open" /\ f.node[1] = ScannedRoot) =>
                LET p == PathOf(store, f.node) IN
                /\ \A i \in 1..Len(results) : ~Under(p, results[i][1])
                /\ \A i \in 1..Len(calls) :
                      (calls[i].op = "OpenKey" /\ calls[i].key = ScannedRoot)
                          => (calls[i].path = p \/ ~Under(p, calls[i].path))
                /\ results = Outside(p, Expected(store, faults \ {f}, <<ScannedRoot>>))

\* the open of a\ fails, which has a subkey, and the scan reports its sibling b1
OpenFailureIsolatedWitness ==
    /\ Returned /\ ScannedRoot = 1
    /\ \E f \in faults : f.op = "open" /\ f.node = <<1, 0>>
    /\ \E i \in 1..Len(results) : results[i][1] = <<"b", "1">>
    /\ \E i \in 1..Len(calls) : calls[i].op = "OpenKey" /\ calls[i].path = <<"a">> /\ calls[i].out # "none"

RECURSIVE RootCalls(_)
\* the roots scan_registry_key was called on with the path "", in the order of the calls
RootCalls(q) ==
    IF q = << >> THEN << >>
    ELSE (IF Head(q).op = "OpenKey" /\ Head(q).path = << >> THEN <<Head(q).key>> ELSE << >>)
         \o RootCalls(Tail(q))

\* C4: whatever open, enumeration or rendering fails, no exception leaves
\* scan_registry_key: main is in its loop or waits for a call that is at one of
\* its registry calls, and when the loop is over it has scanned every selected
\* root, in order.
ScanNeverFails ==
    /\ mainpc # "raised"
    /\ mainpc = "loop" => (stack = << >> /\ root_i <= Len(roots_to_scan))
    /\ mainpc = "scanning" =>
          (stack # << >> /\ Top.pc \in {"open", "values", "subkeys", "close"})
    /\ mainpc = "done" => RootCalls(calls) = roots_to_scan

\* the scan of the first root met a failure that is no OSError, and the second
\* root was scanned after it
ScanNeverFailsWitness ==
    /\ mainpc = "done" /\ Len(roots_to_scan) = 2
    /\ \E i \in 1..Len(calls) :
          /\ calls[i].out = "Exception"
          /\ \E j \in (i + 1)..Len(calls) :
                calls[j].op = "OpenKey" /\ calls[j].path = << >> /\ calls[j].key = roots_to_scan[2]

\* C5: a handle is open exactly as long as the call that opened it is in
\* progress and is closed once when that call returns, also after a failed
\* enumeration or rendering; no handle is open when a scan has returned.
HandlesReleased ==
    /\ \A h \in 1..Len(handles) :
          /\ handles[h].closes <= 1
          /\ handles[h].closes = 0 <=> \E k \in 1..Len(stack) : stack[k].key = h
    /\ stack = << >> => \A h \in 1..Len(handles) : handles[h].closes = 1

\* an enumeration of an open key failed with an error that is no OSError, and
\* the program ended with the handle of that key closed once
HandlesReleasedWitness ==
    /\ mainpc = "done"
    /\ \E i \in 1..Len(calls) :
          /\ calls[i].op \in {"EnumValue", "EnumKey"}
          /\ calls[i].out = "Exception"
          /\ handles[calls[i].key].closes = 1

\* C6: in one run no key is opened twice, successfully or not, and when nothing
\* fails every key under a scanned root is opened exactly once.  (The logs only
\* grow: no key is opened twice if the latest entry never repeats an earlier one.)
VisitOnce ==
    /\ \A h \in 1..(Len(handles) - 1) : handles[h].node # handles[Len(handles)].node
    /\ \A i \in 1..(Len(calls) - 1) :
          LET c == calls[i]
              d == calls[Len(calls)]
          IN  ~(c.op = "OpenKey" /\ d.op = "OpenKey" /\ c.key = d.key /\ c.path = d.path)
    /\ (mainpc = "done" /\ faults = {}) =>
          \A n \in Keys(store) :
              (\E i \in 1..Len(roots_to_scan) : roots_to_scan[i] = n[1])
                  => Cardinality({h \in 1..Len(handles) : handles[h].node = n}) = 1

\* a run without failures over both roots has opened every key
VisitOnceWitness ==
    /\ mainpc = "done" /\ faults = {} /\ Len(roots_to_scan) = 2
    /\ Len(handles) = Cardinality(Keys(store))
    /\ \E h \in 1..Len(handles) : Len(handles[h].node) = 3

\* C7: a second run on the same registry, with the same term, case flag and
\* failures, ends with the same lines in the same order as the first.
ScanDeterministic ==
    (run = 2 /\ mainpc = "done") => all_results = prev_results

\* two runs that met a failure and reported three lines or more
ScanDeterministicWitness ==
    /\ run = 2 /\ mainpc = "done"
    /\ faults # {}
    /\ Len(prev_results) >= 3

\* a record of that path, type and value is among the results
Reported(path, type, value) ==
    \E i \in 1..Len(results) : results[i] = <<path, type, value>>

\* C8: the name of a key, the name of a value and the rendered data of a value are
\* reported iff the term is a contiguous part of them, both lowered first unless
\* the search is case sensitive; a term that differs from the candidate in letter
\* case only is reported by the case-insensitive search and by no other.
MatchIsContainment ==
    (mainpc = "done" /\ faults = {}) =>
        /\ \A it \in ItemsOf(store, ScannedRoot) :
              Reported(ItemRecord(store, it)[1], it[1], ItemRecord(store, it)[3])
                  <=> Contained(search_string, ItemText(store, it), case_sensitive)
        /\ \A it \in ItemsOf(store, ScannedRoot) :
              (/\ Lower(search_string) = Lower(ItemText(store, it))
               /\ search_string # ItemText(store, it))
                  => (Reported(ItemRecord(store, it)[1], it[1], ItemRecord(store, it)[3])
                          <=> ~case_sensitive)

\* the search for "Ab" in "ab", letter case ignored, reports the key, the name of
\* the value and its data
MatchIsContainmentWitness ==
    /\ mainpc = "done" /\ faults = {}
    /\ ~case_sensitive
    /\ search_string = <<"A", "b">>
    /\ Reported(<<"a", "b">>, "KEY_NAME", <<"a", "b">>)
    /\ Reported(<< >>, "VALUE_NAME", <<"a", "b">>)
    /\ Reported(<< >>, "VALUE_DATA", <<"a", "b", " ", "=", " ", "a", "b">>)

\* the number of records of that type for the key of that path
CountOf(q, path, type) ==
    Cardinality({i \in 1..Len(q) : q[i][1] = path /\ q[i][2] = type})

\* the values of key n that have data
WithData(s, n) == {i \in 1..Len(s.vals[n]) : s.vals[n][i].data.t # "none"}

\* C9 as claimed: with the empty term, and nothing failing, a scan returns one
\* KEY_NAME record per key, one VALUE_NAME record per value and one VALUE_DATA
\* record per value.
EmptyTermReportsEveryValue ==
    (Returned /\ faults = {} /\ search_string = << >>) =>
        \A n \in Tree(store, ScannedRoot) :
            /\ CountOf(results, PathOf(store, n), "KEY_NAME") = 1
            /\ CountOf(results, PathOf(store, n), "VALUE_NAME") = Len(store.vals[n])
            /\ CountOf(results, PathOf(store, n), "VALUE_DATA") = Len(store.vals[n])

\* C9: with the empty term, and nothing failing, a scan returns one KEY_NAME
\* record per key, one VALUE_NAME record per value and one VALUE_DATA record per
\* value that has data; a value whose data is absent gets no VALUE_DATA record.
EmptyTermReportsEveryData ==
    (Returned /\ faults = {} /\ search_string = << >>) =>
        \A n \in Tree(store, ScannedRoot) :
            /\ CountOf(results, PathOf(store, n), "KEY_NAME") = 1
            /\ CountOf(results, PathOf(store, n), "VALUE_NAME") = Len(store.vals[n])
            /\ CountOf(results, PathOf(store, n), "VALUE_DATA") = Cardinality(WithData(store, n))
            /\ \A i \in 1..Len(store.vals[n]) :
                  /\ Count(results, ItemRecord(store, NameItem(n, i))) = 1
                  /\ i \in WithData(store, n) => Count(results, ItemRecord(store, DataItem(n, i))) = 1

\* the scan of HKEY_CLASSES_ROOT for the empty term, where the value B of a\A has
\* no data: every key and value name is reported, and the data of the other values
EmptyTermReportsEveryDataWitness ==
    /\ Returned /\ faults = {} /\ search_string = << >> /\ ScannedRoot = 1
    /\ CountOf(results, <<"a", SEP, "A">>, "VALUE_NAME") = 1
    /\ CountOf(results, <<"a", SEP, "A">>, "VALUE_DATA") = 0
    /\ CountOf(results, <<"a">>, "VALUE_DATA") = 2

RECURSIVE FirstKids(_, _, _, _)
\* what the scans of the first k subkeys of key n are to return, one after the other
FirstKids(s, F, n, k) ==
    IF k = 0 THEN << >>
    ELSE FirstKids(s, F, n, k - 1) \o Expected(s, F, Child(n, k - 1))

\* C10: when EnumKey of a key fails at index k with an error other than "no more
\* items", no index above k is requested for that key, none of its subkeys k and
\* above is opened, and the records of the key and of the keys below it are its
\* own record, the records of its values and the full results of subkeys 0..k-1.
KeyEnumFailureKeepsResults ==
    Returned =>
        \A f \in faults : \A h \in 1..Len(handles) :
            (/\ f.op = "key" /\ f.node[1] = ScannedRoot /\ handles[h].node = f.node
             /\ \E i \in 1..Len(calls) :
                   /\ calls[i].op = "EnumKey" /\ calls[i].key = h
                   /\ calls[i].index = f.index /\ calls[i].out # "none") =>
                LET n == f.node
                    k == f.index
                IN  /\ \A i \in 1..Len(calls) :
                          (calls[i].op = "EnumKey" /\ calls[i].key = h) => calls[i].index <= k
                    /\ \A j \in k..(Len(store.kids[n]) - 1) : \A i \in 1..Len(calls) :
                          ~(/\ calls[i].op = "OpenKey" /\ calls[i].key = ScannedRoot
                            /\ calls[i].path = PathOf(store, Child(n, j)))
                    /\ Inside(PathOf(store, n), results) =
                          (IF ItemHit(store, KeyItem(n)) THEN <<ItemRecord(store, KeyItem(n))>> ELSE << >>)
                          \o ExpectedValues(store, faults, n, 1)
                          \o FirstKids(store, faults, n, k)

\* EnumKey of HKEY_CLASSES_ROOT fails at index 1: the scan reports the root, the
\* subkey a and the key a\A below it, and nothing of the subkey b1
KeyEnumFailureKeepsResultsWitness ==
    /\ Returned /\ ScannedRoot = 1
    /\ \E f \in faults : f.op = "key" /\ f.node = <<1>> /\ f.index = 1
    /\ \E i \in 1..Len(calls) : calls[i].op = "EnumKey" /\ calls[i].index = 1 /\ calls[i].out # "none"
    /\ Reported(<< >>, "KEY_NAME", << >>)
    /\ Reported(<<"a">>, "VALUE_NAME", <<"a">>)
    /\ Reported(<<"a", SEP, "A">>, "KEY_NAME", <<"A">>)
    /\ \A i \in 1..Len(results) : results[i][1] # <<"b", "1">>

RECURSIVE MostCalls(_, _), MostCallsKids(_, _, _)
\* the most calls of the registry the scan of key n can make: for every key at or
\* below n one OpenKey, one CloseKey, one EnumValue for every value and one for
\* the end of the values, one EnumKey for every subkey and one for the end
MostCalls(s, n) == 4 + Len(s.vals[n]) + Len(s.kids[n]) + MostCallsKids(s, n, 1)

MostCallsKids(s, n, i) ==
    IF i > Len(s.kids[n]) THEN 0
    ELSE MostCalls(s, Child(n, i - 1)) + MostCallsKids(s, n, i + 1)

RECURSIVE MostCallsOfRoots(_, _)
MostCallsOfRoots(s, roots) ==
    IF roots = << >> THEN 0
    ELSE MostCalls(s, <<Head(roots)>>) + MostCallsOfRoots(s, Tail(roots))

\* C11: whatever opens, enumerations and renderings fail, the run reaches its end,
\* every scan having returned, and the calls of the registry it makes are never
\* more than a number the registry fixes.
ScanTerminates ==
    /\ <>(mainpc = "done")
    /\ [](Len(calls) <= MostCallsOfRoots(store, roots_to_scan))

ScanTerminatesWitness ==
    /\ mainpc = "done"
    /\ faults # {}
    /\ Len(roots_to_scan) = 2
    /\ \E i \in 1..Len(calls) : calls[i].op = "EnumValue" /\ calls[i].out = "Exception"
    /\ Len(calls) > 12

RECURSIVE FirstValues(_, _, _, _)
\* the records of values 0..j-1 of key n: the name of each before its data, the
\* data only when the value has data that str() renders
FirstValues(s, F, n, j) ==
    IF j = 0 THEN << >>
    ELSE FirstValues(s, F, n, j - 1)
         \o (IF ItemHit(s, NameItem(n, j)) THEN <<ItemRecord(s, NameItem(n, j))>> ELSE << >>)
         \o (IF /\ s.vals[n][j].data.t # "none"
                /\ Raises(F, "render", n, j - 1) = "none"
                /\ ItemHit(s, DataItem(n, j))
             THEN <<ItemRecord(s, DataItem(n, j))>> ELSE << >>)

\* C12: when EnumValue of a key fails at index j where the key has a value, the
\* records of the key and of the keys below it are its own record, the records of
\* its values 0..j-1 and the results of the scans of its subkeys; index j is
\* requested once and no index above j, and the subkeys are enumerated after it.
ValueEnumFailureKeepsResults ==
    Returned =>
        \A f \in faults : \A h \in 1..Len(handles) :
            (/\ f.op = "value" /\ f.node[1] = ScannedRoot /\ handles[h].node = f.node
             /\ \E i \in 1..Len(calls) :
                   /\ calls[i].op = "EnumValue" /\ calls[i].key = h
                   /\ calls[i].index = f.index /\ calls[i].out # "none") =>
                LET n == f.node
                    j == f.index
                    at == CHOOSE i \in 1..Len(calls) :
                              /\ calls[i].op = "EnumValue" /\ calls[i].key = h
                              /\ calls[i].index = j
                IN  /\ \A i \in 1..Len(calls) :
                          (calls[i].op = "EnumValue" /\ calls[i].key = h) =>
                              /\ calls[i].index <= j
                              /\ calls[i].index = j => i = at
                    /\ at < Len(calls)
                    /\ calls[at + 1] = Call("EnumKey", h, << >>, 0, calls[at + 1].out)
                    /\ Inside(PathOf(store, n), results) =
                          (IF ItemHit(store, KeyItem(n)) THEN <<ItemRecord(store, KeyItem(n))>> ELSE << >>)
                          \o FirstValues(store, faults, n, j)
                          \o ExpectedKids(store, faults, n, 1)

\* EnumValue of the key a fails at index 1 with an error that is not OSError: the
\* scan reports the value a of index 0 and the subkey a\A, and not the value Ab
ValueEnumFailureKeepsResultsWitness ==
    /\ Returned /\ ScannedRoot = 1
    /\ \E f \in faults : f.op = "value" /\ f.node = <<1, 0>> /\ f.index = 1 /\ f.exc = "Exception"
    /\ \E i \in 1..Len(calls) :
          calls[i].op = "EnumValue" /\ calls[i].index = 1 /\ calls[i].out = "Exception"
    /\ Reported(<<"a">>, "KEY_NAME", <<"a">>)
    /\ Reported(<<"a">>, "VALUE_NAME", <<"a">>)
    /\ Reported(<<"a", SEP, "A">>, "KEY_NAME", <<"A">>)
    /\ \A i \in 1..Len(results) : results[i][3] # <<"A", "b">>

\* the number of values of its key the handle h has enumerated
Enumerated(h) ==
    Cardinality({i \in 1..Len(calls) :
        calls[i].op = "EnumValue" /\ calls[i].key = h /\ calls[i].out = "none"})

\* C13: when str() fails on the data of the value of index j of a key, the name of
\* that value is reported if it holds the term and its data is not; the next call
\* of the registry is EnumValue of index j + 1, and the records of the key are
\* those of all the values it enumerates, before and after j, by name and by data.
RenderFailureSkipsDataOnly ==
    Returned =>
        \A f \in faults : \A h \in 1..Len(handles) :
            (/\ f.op = "render" /\ f.node[1] = ScannedRoot /\ handles[h].node = f.node
             /\ \E i \in 1..Len(calls) :
                   /\ calls[i].op = "EnumValue" /\ calls[i].key = h
                   /\ calls[i].index = f.index /\ calls[i].out = "none") =>
                LET n == f.node
                    j == f.index
                    at == CHOOSE i \in 1..Len(calls) :
                              /\ calls[i].op = "EnumValue" /\ calls[i].key = h
                              /\ calls[i].index = j
                IN  /\ ItemHit(store, NameItem(n, j + 1)) =>
                          \E i \in 1..Len(results) :
                              results[i] = ItemRecord(store, NameItem(n, j + 1))
                    /\ ~ \E i \in 1..Len(results) :
                            results[i] = ItemRecord(store, DataItem(n, j + 1))
                    /\ at < Len(calls)
                    /\ calls[at + 1] = Call("EnumValue", h, << >>, j + 1, calls[at + 1].out)
                    /\ Inside(PathOf(store, n), results) =
                          (IF ItemHit(store, KeyItem(n)) THEN <<ItemRecord(store, KeyItem(n))>> ELSE << >>)
                          \o FirstValues(store, faults, n, Enumerated(h))
                          \o ExpectedKids(store, faults, n, 1)

\* the empty term and str() failing on the data 10 of the value a of the key a:
\* the scan reports the name a, not "a = 10", and the value Ab by name and data
RenderFailureSkipsDataOnlyWitness ==
    /\ Returned /\ ScannedRoot = 1
    /\ search_string = << >>
    /\ \E f \in faults : f.op = "render" /\ f.node = <<1, 0>> /\ f.index = 0
    /\ Reported(<<"a">>, "VALUE_NAME", <<"a">>)
    /\ ~Reported(<<"a">>, "VALUE_DATA", <<"a", " ", "=", " ", "1", "0">>)
    /\ Reported(<<"a">>, "VALUE_NAME", <<"A", "b">>)
    /\ Reported(<<"a">>, "VALUE_DATA", <<"A", "b", " ", "=", " ", "b", "'", "a", "'">>)

\* the handles that are open
OpenHandles == {h \in 1..Len(handles) : handles[h].closes = 0}

\* key m is key n or above it
AtOrAbove(m, n) == Len(m) <= Len(n) /\ SubSeq(n, 1, Len(m)) = m

\* C14: at every moment the open handles are those of the keys on the path from
\* the root of the scan down to the key the innermost call has open, one for
\* each call that has opened its key and never more than there are calls; two
\* subkeys of a key are never open together, the earlier one being closed
\* before the later one is opened, and a key is open as long as a key below it is.
HandlesFollowPath ==
    /\ Cardinality(OpenHandles) <= Len(stack)
    /\ \A k \in 1..Len(stack) :
          IF stack[k].key = 0
          THEN k = Len(stack) /\ stack[k].pc = "open"
          ELSE /\ stack[k].key \in OpenHandles
               /\ Len(handles[stack[k].key].node) = k
               /\ k = 1 => handles[stack[k].key].node = <<stack[k].root_key>>
               /\ k > 1 => handles[stack[k - 1].key].node = Parent(handles[stack[k].key].node)
    /\ \A h \in OpenHandles :
          /\ \E k \in 1..Len(stack) : stack[k].key = h
          /\ stack[Len(stack)].key # 0 => AtOrAbove(handles[h].node, handles[stack[Len(stack)].key].node)
          /\ Len(handles[h].node) > 1 =>
                \E g \in OpenHandles : g < h /\ handles[g].node = Parent(handles[h].node)
    /\ \A g, h \in 1..Len(handles) :
          (/\ g < h /\ handles[g].node # handles[h].node
           /\ Parent(handles[g].node) = Parent(handles[h].node)
           /\ h \in OpenHandles) =>
              /\ g \notin OpenHandles
              /\ \A d \in 1..Len(handles) :
                    (g < d /\ d < h) => AtOrAbove(handles[g].node, handles[d].node) /\ d \notin OpenHandles

\* the key b1 is open while a call of the registry has failed; its sibling a and
\* the key a\A below that were opened before it and are closed; one level down,
\* a\A was open together with a and the root
HandlesFollowPathWitness ==
    /\ faults # {}
    /\ Len(stack) = 2
    /\ Top.key \in OpenHandles
    /\ handles[Top.key].node = <<1, 1>>
    /\ Cardinality(OpenHandles) = 2
    /\ \E g, d \in 1..Len(handles) :
          /\ g < d /\ d < Top.key
          /\ handles[g].node = <<1, 0>> /\ handles[g].closes = 1
          /\ handles[d].node = <<1, 0, 0>> /\ handles[d].closes = 1

RECURSIVE FrameKey(_)
\* the key the k-th call on the stack scans: the root for the first, else the
\* subkey its caller enumerated last
FrameKey(k) ==
    IF k = 1 THEN <<stack[1].root_key>>
    ELSE Child(FrameKey(k - 1), stack[k - 1].subkey_index - 1)

\* the records q are of keys at or below key n, each under the path of its key
RecordsBelow(q, n) ==
    \A i \in 1..Len(q) :
        \E m \in Keys(store) : AtOrAbove(n, m) /\ q[i][1] = PathOf(store, m)

\* C15: the path of every call, of every OpenKey and of every record is the
\* names of the keys from below the root down to its key, joined by the
\* separator, with no separator in front: "" for the root, the bare name for a
\* subkey of the root; the path of a call for a subkey is the path of its caller
\* extended by the name EnumKey returned.
PathsAreJoinedNames ==
    /\ \A k \in 1..Len(stack) :
          /\ FrameKey(k) \in Keys(store)
          /\ stack[k].key_path = PathOf(store, FrameKey(k))
          /\ stack[k].key_path = << >> \/ Head(stack[k].key_path) # SEP
          /\ stack[k].key # 0 => handles[stack[k].key].node = FrameKey(k)
          /\ k > 1 =>
                LET name == store.kids[FrameKey(k - 1)][stack[k - 1].subkey_index]
                IN  stack[k].key_path =
                        IF k = 2 THEN name ELSE stack[k - 1].key_path \o <<SEP>> \o name
          /\ RecordsBelow(stack[k].results, FrameKey(k))
    /\ \A i \in 1..Len(calls) :
          calls[i].op = "OpenKey" =>
              /\ \E m \in Keys(store) : m[1] = calls[i].key /\ calls[i].path = PathOf(store, m)
              /\ calls[i].path = << >> \/ Head(calls[i].path) # SEP
    /\ Returned => RecordsBelow(results, <<ScannedRoot>>)

\* the scan of HKEY_CLASSES_ROOT, with a failure, opened "", "a" and "a\A" and
\* reports the key a\A and the value a of the key a under these paths
PathsAreJoinedNamesWitness ==
    /\ Returned /\ ScannedRoot = 1 /\ faults # {}
    /\ \A p \in {<< >>, <<"a">>, <<"a", SEP, "A">>} :
          \E i \in 1..Len(calls) : calls[i] = Call("OpenKey", 1, p, 0, "none")
    /\ Reported(<<"a", SEP, "A">>, "KEY_NAME", <<"A">>)
    /\ Reported(<<"a">>, "VALUE_NAME", <<"a">>)

\* the calls of the log before the i-th that ask the same handle the same thing
Earlier(i) ==
    {k \in 1..(i - 1) : calls[k].op = calls[i].op /\ calls[k].key = calls[i].key}

\* C16: the indices a call asks EnumValue for on its handle are 0, 1, 2, .. in
\* this order, each once, and none after the first one the registry fails, be it
\* for "no more items" or another error; the same holds for EnumKey; every
\* EnumValue on a handle comes before the first EnumKey on it, and a handle is
\* closed only after both enumerations have ended with a failure. The log grows
\* by one call at a time: the property is stated of its last call, whatever the
\* length of the log.
IndicesAscend ==
    calls # << >> =>
        LET i == Len(calls) IN
        /\ calls[i].op \in {"EnumValue", "EnumKey"} =>
              /\ calls[i].index = Cardinality(Earlier(i))
              /\ \A k \in Earlier(i) : calls[k].out = "none" /\ calls[k].index < calls[i].index
              /\ calls[i].op = "EnumValue" =>
                    \A k \in 1..(i - 1) : ~(calls[k].op = "EnumKey" /\ calls[k].key = calls[i].key)
        /\ calls[i].op = "CloseKey" =>
              \A op \in {"EnumValue", "EnumKey"} :
                  \E k \in 1..(i - 1) :
                      calls[k].op = op /\ calls[k].key = calls[i].key /\ calls[k].out # "none"

\* the key a, with two values and one subkey, was asked for the values 0, 1, 2
\* and then for the subkeys 0, 1; another key was asked for the value 0 alone,
\* which failed with an error that is not OSError
IndicesAscendWitness ==
    /\ mainpc = "done"
    /\ \E h, g \in 1..Len(handles) :
          /\ handles[h].node = <<1, 0>>
          /\ \E i \in 1..Len(calls) : calls[i] = Call("EnumValue", h, << >>, 2, "OSError")
          /\ \E i \in 1..Len(calls) : calls[i] = Call("EnumKey", h, << >>, 1, "OSError")
          /\ \E i \in 1..Len(calls) : calls[i] = Call("EnumValue", g, << >>, 0, "Exception")

RECURSIVE Tagged(_, _)
\* the records rs, in their order, each written as a line under the root name
Tagged(root_name, rs) ==
    IF rs = << >> THEN << >>
    ELSE <<ResultLine(root_name, Head(rs))>> \o Tagged(root_name, Tail(rs))

\* what the scan of the k-th root main takes returns from the path "", written
\* under the name of that root
OutputOf(k) ==
    Tagged(ROOT_KEYS[roots_to_scan[k]], Expected(store, faults, <<roots_to_scan[k]>>))

RECURSIVE Outputs(_)
\* the lists OutputOf(1), .., OutputOf(k)
Outputs(k) == IF k = 0 THEN << >> ELSE Append(Outputs(k - 1), OutputOf(k))

RECURSIVE Concat(_, _)
\* the first k lists of q, one after the other
Concat(q, k) == IF k = 0 THEN << >> ELSE Concat(q, k - 1) \o q[k]

\* C17: the output of main is, root after root in the order main takes them, the
\* list the scan of the root returned from the empty path, in the order of that
\* list, every line starting with "[", the name of its root and the separator.
OutputIsConcatenation ==
    mainpc \in {"loop", "done"} =>
        \E out \in {Outputs(root_i)} :
            /\ all_results = Concat(out, root_i)
            /\ root_i > 0 => Tagged(ROOT_KEYS[ScannedRoot], results) = out[root_i]
            /\ \A k \in 1..root_i :
                  /\ \E i \in 1..Len(calls) :
                        /\ calls[i].op = "OpenKey" /\ calls[i].key = roots_to_scan[k]
                        /\ calls[i].path = << >>
                  /\ \A i \in 1..Len(out[k]) :
                        StartsWith(out[k][i], <<"[">> \o ROOT_KEYS[roots_to_scan[k]] \o <<SEP>>)

\* both roots are scanned, a call of the registry failed, and the output holds
\* lines of HKEY_CLASSES_ROOT followed by a line of HKEY_CURRENT_USER
OutputIsConcatenationWitness ==
    /\ mainpc = "done" /\ roots_to_scan = <<1, 2>> /\ faults # {}
    /\ Len(OutputOf(1)) >= 2
    /\ Len(all_results) > Len(OutputOf(1))
    /\ all_results[1] # all_results[Len(OutputOf(1))]
    /\ StartsWith(all_results[1], <<"[">> \o ROOT_KEYS[1] \o <<SEP>>)
    /\ StartsWith(all_results[Len(all_results)], <<"[">> \o ROOT_KEYS[2] \o <<SEP>>)

\* the rights that let the holder of a handle change the registry
WriteRights ==
    {"KEY_SET_VALUE", "KEY_CREATE_SUB_KEY", "KEY_CREATE_LINK", "DELETE", "WRITE_DAC", "WRITE_OWNER"}

\* C18: whatever fails, the calls of the registry are OpenKey, EnumValue, EnumKey
\* and CloseKey alone, no handle carries a right to write, and no step changes
\* the keys, the values or the shape of the registry.
ScanIsReadOnly ==
    /\ [](/\ \A i \in 1..Len(calls) :
               calls[i].op \in {"OpenKey", "EnumValue", "EnumKey", "CloseKey"}
          /\ \A h \in 1..Len(handles) : handles[h].access \cap WriteRights = {})
    /\ [][store' = store]_vars

\* a run with a failure has opened, enumerated and closed keys, and the registry
\* is the one it started on
ScanIsReadOnlyWitness ==
    /\ mainpc = "done" /\ faults # {} /\ store = Registry
    /\ Len(handles) >= 3
    /\ \A op \in {"OpenKey", "EnumValue", "EnumKey", "CloseKey"} :
          \E i \in 1..Len(calls) : calls[i].op = op
    /\ \E i \in 1..Len(calls) : calls[i].out \in {"PermissionError", "Exception"}

====
